---- MODULE Spec2Model ----
(***************************************************************************)
(* Model of platforms/generate_platform_pages.py: the section clipper      *)
(* (cut_section), the line classifier (classify_line), the content         *)
(* renderer (build_content_html) and the driver (main).                    *)
(*                                                                         *)
(* A Python str is modelled as a sequence of characters, each character a  *)
(* one-element TLA+ string.  Two characters outside ASCII are written by   *)
(* name: EmDash (U+2014) and Palette (U+1F3A8).                            *)
(***************************************************************************)
EXTENDS Integers, Sequences, FiniteSets, TLC

VARIABLES paras, idx, out, in_ul, prev_kind, pc,
          cut_paras, cut_markers, cut_result, cut_pc,
          files, pos, log, pages, images, dirs, main_pc

render_vars == <<paras, idx, out, in_ul, prev_kind, pc>>
cut_vars == <<cut_paras, cut_markers, cut_result, cut_pc>>
main_vars == <<files, pos, log, pages, images, dirs, main_pc>>
vars == <<paras, idx, out, in_ul, prev_kind, pc,
          cut_paras, cut_markers, cut_result, cut_pc,
          files, pos, log, pages, images, dirs, main_pc>>

(***************************************************************************)
(* Bounds of the model.                                                    *)
(***************************************************************************)
MaxParas == 3
MaxCutParas == 3
MaxMarkers == 2

(***************************************************************************)
(* Characters.                                                             *)
(***************************************************************************)
EmDash == "emdash"
Palette == "palette"

UpperLetters ==
    <<"A","B","C","D","E","F","G","H","I","J","K","L","M",
      "N","O","P","Q","R","S","T","U","V","W","X","Y","Z">>
LowerLetters ==
    <<"a","b","c","d","e","f","g","h","i","j","k","l","m",
      "n","o","p","q","r","s","t","u","v","w","x","y","z">>
Digits == {"0","1","2","3","4","5","6","7","8","9"}
Range(s) == {s[i] : i \in 1..Len(s)}

\* \s of a str pattern, and the characters str.strip() removes
IsSpace(c) == c \in {" ", "\t", "\n", "\r", "\f"}
\* \d of a str pattern
IsDigit(c) == c \in Digits
\* \w of a str pattern: alphanumerics and the underscore
IsWord(c) == c \in Range(UpperLetters) \cup Range(LowerLetters) \cup Digits \cup {"_"}

\* str.lower() on one character
LowerChar(c) ==
    IF \E i \in 1..Len(UpperLetters) : UpperLetters[i] = c
    THEN LowerLetters[CHOOSE i \in 1..Len(UpperLetters) : UpperLetters[i] = c]
    ELSE c
\* (variant: the letter case is kept)
LowerKeepsCase(s) == s
\* str.lower()
Lower(s) == [i \in 1..Len(s) |-> LowerChar(s[i])]

\* str.strip()
RECURSIVE LStrip(_)
LStrip(s) == IF s # <<>> /\ IsSpace(Head(s)) THEN LStrip(Tail(s)) ELSE s
RECURSIVE RStrip(_)
RStrip(s) ==
    IF s # <<>> /\ IsSpace(s[Len(s)]) THEN RStrip(SubSeq(s, 1, Len(s) - 1)) ELSE s
Strip(s) == RStrip(LStrip(s))

\* s.startswith(p)
StartsWith(s, p) == Len(p) <= Len(s) /\ SubSeq(s, 1, Len(p)) = p
\* p occurs in s at offset k (0-based)
OccursAt(s, p, k) == k + Len(p) <= Len(s) /\ SubSeq(s, k + 1, k + Len(p)) = p
\* p in s
Contains(s, p) == \E k \in 0..Len(s) : OccursAt(s, p, k)

\* html.escape(s), quote=True
EscapeChar(c) ==
    CASE c = "&" -> <<"&","a","m","p",";">>
      [] c = "<" -> <<"&","l","t",";">>
      [] c = ">" -> <<"&","g","t",";">>
      [] c = "\"" -> <<"&","q","u","o","t",";">>
      [] c = "'" -> <<"&","#","x","2","7",";">>
      [] OTHER -> <<c>>
\* (the string is split in halves to keep the evaluation shallow)
RECURSIVE Escape(_)
Escape(s) ==
    IF s = <<>> THEN <<>>
    ELSE IF Len(s) = 1 THEN EscapeChar(s[1])
    ELSE LET h == Len(s) \div 2
         IN  Escape(SubSeq(s, 1, h)) \o Escape(SubSeq(s, h + 1, Len(s)))

\* the regex assertion \b at offset k of s (0-based, between s[k] and s[k+1])
WordBoundary(s, k) ==
    LET before == k >= 1 /\ IsWord(s[k])
        after == k < Len(s) /\ IsWord(s[k + 1])
    IN  before # after

\* the offset at which a maximal run of characters satisfying a class, begun
\* at offset k, ends
RECURSIVE SpaceRunEnd(_, _)
SpaceRunEnd(s, k) == IF k < Len(s) /\ IsSpace(s[k + 1]) THEN SpaceRunEnd(s, k + 1) ELSE k
RECURSIVE DigitRunEnd(_, _)
DigitRunEnd(s, k) == IF k < Len(s) /\ IsDigit(s[k + 1]) THEN DigitRunEnd(s, k + 1) ELSE k

(***************************************************************************)
(* classify_line                                                           *)
(***************************************************************************)
ModuleUpper == <<"M","O","D","U","L","E">>
ModuleTitle == <<"M","o","d","u","l","e">>
ExecTitle == <<"E","x","e","c","u","t","i","v","e"," ","S","u","m","m","a","r","y">>
ExecUpper == <<"E","X","E","C","U","T","I","V","E"," ","S","U","M","M","A","R","Y">>
CoreLabel == <<"C","o","r","e"," ","P","r","i","n","c","i","p","l","e",":">>

SubsectionTitles ==
    { <<"F","r","a","m","e","w","o","r","k">>,
      <<"C","a","s","e"," ","S","t","u","d","i","e","s">>,
      <<"C","h","a","l","l","e","n","g","e"," ","E","x","e","r","c","i","s","e">>,
      <<"W","h","a","t"," ","T","h","i","s"," ","M","o","d","u","l","e"," ","B","u","i","l","d","s">>,
      <<"R","e","a","l","-","W","o","r","l","d"," ","A","p","p","l","i","c","a","t","i","o","n","s">>,
      <<"K","e","y"," ","T","a","k","e","a","w","a","y","s">>,
      <<"C","l","o","s","i","n","g">>,
      <<"C","o","n","c","l","u","s","i","o","n">> }

\* (variant: the upper-case alternative is missing)
ModuleWordsTitleOnly == {ModuleTitle}
\* the alternatives the module pattern accepts for its first word
ModuleWords == {ModuleUpper, ModuleTitle}

\* re.match(r"^(MODULE|Module)\s+\d+\b", line).  \s+ and \d+ are greedy; a
\* shorter run never helps, since \b fails between two digits and \d fails on
\* a space, so the match is decided by the maximal runs.
MatchModule(line) ==
    \E w \in ModuleWords :
        /\ StartsWith(line, w)
        /\ LET s == SpaceRunEnd(line, Len(w))
               d == DigitRunEnd(line, s)
           IN  /\ s > Len(w)
               /\ d > s
               /\ WordBoundary(line, d)

\* re.match(r"^(Executive Summary|EXECUTIVE SUMMARY)\b", line)
MatchExecutive(line) ==
    \E w \in {ExecTitle, ExecUpper} :
        StartsWith(line, w) /\ WordBoundary(line, Len(w))

\* re.match(r"^(Core Principle:)\b", line)
MatchCore(line) ==
    StartsWith(line, CoreLabel) /\ WordBoundary(line, Len(CoreLabel))

classify_line(line) ==
    IF MatchModule(line) THEN "h2"
    ELSE IF MatchExecutive(line) THEN "h2"
    ELSE IF MatchCore(line) THEN "core"
    ELSE IF Strip(line) \in SubsectionTitles THEN "h3"
    ELSE "p"

(***************************************************************************)
(* build_content_html                                                      *)
(*                                                                         *)
(* A piece appended to `out` is a record: its tag names the markup the     *)
(* f-string wraps around the text, its text is the escaped text inside.    *)
(***************************************************************************)
BulletMaxLen == 110
BulletEndings == {".", ")", EmDash}

Piece(tag, text) == [tag |-> tag, text |-> text]
UlOpen == Piece("ul", <<>>)
UlClose == Piece("/ul", <<>>)

\* (variant: the closing is appended without looking at in_ul)
CloseUlUnguarded(open) == <<UlClose>>
\* close_ul(): the pieces it appends
CloseUl(open) == IF open THEN <<UlClose>> ELSE <<>>

\* line.split("Core Principle:", 1)[1]: what follows the first occurrence
SplitAfter(line, label) ==
    LET k == CHOOSE j \in 0..Len(line) :
                 /\ OccursAt(line, label, j)
                 /\ \A i \in 0..(j - 1) : ~OccursAt(line, label, i)
    IN  SubSeq(line, k + Len(label) + 1, Len(line))

\* (variant: a list item also gives bullet context to the next line)
bullet_context_run(prev) == prev \in {"h3", "p"}
bullet_context(prev) == prev = "h3"
\* (variant: the length limit is exclusive)
looks_bulleted_exclusive(line) ==
    /\ Len(line) < BulletMaxLen
    /\ line # <<>>
    /\ line[Len(line)] \in BulletEndings
looks_bulleted(line) ==
    /\ Len(line) <= BulletMaxLen
    /\ line # <<>>
    /\ line[Len(line)] \in BulletEndings

H2Piece(line) == Piece("h2", Escape(line))
H3Piece(line) == Piece("h3", Escape(line))
CorePiece(line) == Piece("core", Escape(Strip(SplitAfter(line, CoreLabel))))
LiPiece(line) == Piece("li", Escape(line))
PPiece(line) == Piece("p", Escape(line))

\* one iteration of the loop over paras: st is (out, in_ul, prev_kind)
RenderLine(st, raw) ==
    LET line == Strip(raw)
        kind == classify_line(line)
    IN  CASE kind = "h2" ->
               [out |-> st.out \o CloseUl(st.in_ul) \o <<H2Piece(line)>>,
                in_ul |-> FALSE, prev_kind |-> kind]
          [] kind = "h3" ->
               [out |-> st.out \o CloseUl(st.in_ul) \o <<H3Piece(line)>>,
                in_ul |-> FALSE, prev_kind |-> kind]
          [] kind = "core" ->
               [out |-> st.out \o CloseUl(st.in_ul) \o <<CorePiece(line)>>,
                in_ul |-> FALSE, prev_kind |-> kind]
          [] OTHER ->
               IF bullet_context(st.prev_kind) /\ looks_bulleted(line)
               THEN [out |-> st.out
                               \o (IF st.in_ul THEN <<>> ELSE <<UlOpen>>)
                               \o <<LiPiece(line)>>,
                     in_ul |-> TRUE, prev_kind |-> kind]
               ELSE [out |-> st.out \o CloseUl(st.in_ul) \o <<PPiece(line)>>,
                     in_ul |-> FALSE, prev_kind |-> kind]

\* the state before the loop
RenderStart == [out |-> <<>>, in_ul |-> FALSE, prev_kind |-> "None"]

RECURSIVE RenderAll(_, _)
RenderAll(st, ps) == IF ps = <<>> THEN st ELSE RenderAll(RenderLine(st, Head(ps)), Tail(ps))

\* the pieces build_content_html joins with "\n"
build_content_html(ps) ==
    LET st == RenderAll(RenderStart, ps)
    IN  st.out \o CloseUl(st.in_ul)

(***************************************************************************)
(* Inputs of the renderer: the lines a paragraph is drawn from.            *)
(***************************************************************************)
Repeat(c, n) == [i \in 1..n |-> c]

LineModule1 == <<"M","o","d","u","l","e"," ","1">>
LineModuleUpper == <<"M","O","D","U","L","E"," ","2">>
LineModuleLower == <<"m","o","d","u","l","e"," ","3">>
LineModuleOrdinal == <<"M","o","d","u","l","e"," ","4","t","h">>
LineExecutive == <<"E","x","e","c","u","t","i","v","e"," ","S","u","m","m","a","r","y">>
LineCoreSpaced ==
    <<"C","o","r","e"," ","P","r","i","n","c","i","p","l","e",":"," ",
      "S","h","o","w"," ","u","p"," ","d","a","i","l","y",".">>
LineCoreTight == <<"C","o","r","e"," ","P","r","i","n","c","i","p","l","e",":","A","c","t",".">>
LineFramework == <<"F","r","a","m","e","w","o","r","k">>
LineConclusion == <<"C","o","n","c","l","u","s","i","o","n">>
LineTrust == <<"B","u","i","l","d","s"," ","t","r","u","s","t",".">>
LineTrustAgain == <<"B","u","i","l","d","s"," ","t","r","u","s","t"," ","a","g","a","i","n",".">>
LinePlain == <<"P","l","a","i","n"," ","t","e","x","t">>
LineTakeawaysPadded == <<" ","K","e","y"," ","T","a","k","e","a","w","a","y","s"," ">>
LineTakeawaysBang == <<"K","e","y"," ","T","a","k","e","a","w","a","y","s","!">>
LineAmpersand == <<"A"," ","&"," ","B",")">>
LineDash == <<"W","a","i","t",EmDash>>
\* exactly BulletMaxLen characters, and one more
LineAtLimit == Repeat("x", BulletMaxLen - 1) \o <<".">>
LineOverLimit == Repeat("x", BulletMaxLen) \o <<".">>

Lines ==
    { LineModule1, LineModuleUpper, LineModuleLower, LineModuleOrdinal,
      LineExecutive, LineCoreSpaced, LineCoreTight, LineFramework,
      LineConclusion, LineTrust, LineTrustAgain, LinePlain,
      LineTakeawaysPadded, LineTakeawaysBang, LineAmpersand, LineDash,
      LineAtLimit, LineOverLimit }

\* the scenario of the testable properties
ScenarioParas == <<LineModule1, LineFramework, LineTrust, LineTrustAgain, LineConclusion>>

SeqsUpTo(S, n) == UNION {[1..k -> S] : k \in 0..n}

(***************************************************************************)
(* Idle values of the variables a specification does not use.              *)
(***************************************************************************)
RenderIdle ==
    /\ paras = <<>> /\ idx = 0 /\ out = <<>> /\ in_ul = FALSE
    /\ prev_kind = "None" /\ pc = "idle"
CutIdle ==
    /\ cut_paras = <<>> /\ cut_markers = [none |-> TRUE, list |-> <<>>]
    /\ cut_result = <<>> /\ cut_pc = "idle"
MainIdle ==
    /\ files = <<>> /\ pos = 0 /\ log = <<>> /\ pages = <<>>
    /\ images = {} /\ dirs = {} /\ main_pc = "idle"

(***************************************************************************)
(* build_content_html as a state machine: one step per paragraph.          *)
(***************************************************************************)
RenderInit ==
    /\ paras \in SeqsUpTo(Lines, MaxParas) \cup {ScenarioParas}
    /\ idx = 0
    /\ out = <<>>
    /\ in_ul = FALSE
    /\ prev_kind = "None"
    /\ pc = "loop"

CurLine == Strip(paras[idx + 1])
CurKind == classify_line(CurLine)

RenderApply ==
    LET st == RenderLine([out |-> out, in_ul |-> in_ul, prev_kind |-> prev_kind],
                         paras[idx + 1])
    IN  /\ out' = st.out
        /\ in_ul' = st.in_ul
        /\ prev_kind' = st.prev_kind
        /\ idx' = idx + 1
        /\ UNCHANGED <<paras, pc>>

\* a major or minor heading
RenderHeading ==
    /\ pc = "loop" /\ idx < Len(paras)
    /\ CurKind \in {"h2", "h3"}
    /\ RenderApply
    /\ UNCHANGED <<cut_vars, main_vars>>

\* a callout
RenderCore ==
    /\ pc = "loop" /\ idx < Len(paras)
    /\ CurKind = "core"
    /\ RenderApply
    /\ UNCHANGED <<cut_vars, main_vars>>

\* a paragraph candidate emitted as a list item
RenderBullet ==
    /\ pc = "loop" /\ idx < Len(paras)
    /\ CurKind = "p"
    /\ bullet_context(prev_kind) /\ looks_bulleted(CurLine)
    /\ RenderApply
    /\ UNCHANGED <<cut_vars, main_vars>>

\* a paragraph candidate emitted as a plain paragraph
RenderParagraph ==
    /\ pc = "loop" /\ idx < Len(paras)
    /\ CurKind = "p"
    /\ ~(bullet_context(prev_kind) /\ looks_bulleted(CurLine))
    /\ RenderApply
    /\ UNCHANGED <<cut_vars, main_vars>>

\* end of input: close_ul() and return
RenderFinish ==
    /\ pc = "loop" /\ idx = Len(paras)
    /\ out' = out \o CloseUl(in_ul)
    /\ in_ul' = FALSE
    /\ pc' = "done"
    /\ UNCHANGED <<paras, idx, prev_kind>>
    /\ UNCHANGED <<cut_vars, main_vars>>

Init == RenderInit /\ CutIdle /\ MainIdle
Next == RenderHeading \/ RenderCore \/ RenderBullet \/ RenderParagraph \/ RenderFinish
Spec == Init /\ [][Next]_vars

(***************************************************************************)
(* Properties of the renderer.                                             *)
(***************************************************************************)
Last(s) == s[Len(s)]
\* how many of the first k pieces of s carry the tag
CountTag(s, tag, k) == Cardinality({i \in 1..k : s[i].tag = tag})
\* openings minus closings among the first k pieces
OpenDepth(s, k) == CountTag(s, "ul", k) - CountTag(s, "/ul", k)
\* the shape test of a bullet, written out
BulletShaped(line) ==
    /\ Len(line) >= 1
    /\ Len(line) <= 110
    /\ line[Len(line)] \in {".", ")", EmDash}

\* C1: in every fragment the list openings and closings balance: after every
\* processed line the openings minus the closings are 0 or 1, and 1 exactly
\* when in_ul holds; no closing is emitted at depth 0 (every prefix has depth
\* 0 or 1); the returned fragment has as many closings as openings.  No
\* emitted text holds a "<", so the pieces counted are all the tags there are.
C1_Balanced ==
    /\ \A k \in 0..Len(out) : OpenDepth(out, k) \in {0, 1}
    /\ (OpenDepth(out, Len(out)) = 1) <=> in_ul
    /\ pc = "done" => CountTag(out, "ul", Len(out)) = CountTag(out, "/ul", Len(out))
    /\ \A i \in 1..Len(out) : "<" \notin Range(out[i].text)
\* a list still open at the end of the input was closed by the final close_ul()
C1_Witness ==
    /\ pc = "done"
    /\ Len(out) >= 3
    /\ Last(out).tag = "/ul"
    /\ out[Len(out) - 1].tag = "li"

\* C2: a paragraph-candidate line becomes a list item if and only if the
\* preceding line was a minor heading and the trimmed line is at most 110
\* characters long and ends with ".", ")" or an em-dash; otherwise an open
\* list is closed and the line becomes a plain paragraph.  The first line is
\* never a list item.
C2_Step ==
    (pc = "loop" /\ idx < Len(paras) /\ classify_line(Strip(paras[idx + 1])) = "p") =>
        LET line == Strip(paras[idx + 1])
            item == prev_kind = "h3" /\ BulletShaped(line)
        IN  /\ item => out' = out \o (IF in_ul THEN <<>> ELSE <<[tag |-> "ul", text |-> <<>>]>>)
                                  \o <<[tag |-> "li", text |-> Escape(line)]>>
            /\ ~item => out' = out \o (IF in_ul THEN <<[tag |-> "/ul", text |-> <<>>]>> ELSE <<>>)
                                   \o <<[tag |-> "p", text |-> Escape(line)]>>
            /\ idx = 0 => Last(out').tag = "p"
C3_RunIsOneList ==
    /\ (pc = "done" /\ paras = ScenarioParas) =>
           out = << [tag |-> "h2", text |-> LineModule1],
                    [tag |-> "h3", text |-> LineFramework],
                    [tag |-> "ul", text |-> <<>>],
                    [tag |-> "li", text |-> LineTrust],
                    [tag |-> "li", text |-> LineTrustAgain],
                    [tag |-> "/ul", text |-> <<>>],
                    [tag |-> "h3", text |-> LineConclusion] >>
    /\ (/\ pc = "loop" /\ idx >= 3
        /\ classify_line(Strip(paras[idx - 2])) = "h3"
        /\ classify_line(Strip(paras[idx - 1])) = "p" /\ BulletShaped(Strip(paras[idx - 1]))
        /\ classify_line(Strip(paras[idx])) = "p" /\ BulletShaped(Strip(paras[idx])))
       => (/\ Len(out) >= 3
           /\ Last(out).tag = "li"
           /\ out[Len(out) - 1].tag = "li"
           /\ in_ul)

\* C6: a line that begins with the label "Core Principle:" followed by text is
\* rendered as a callout block whose payload is the rest of the line, trimmed;
\* "Core Principle: Show up daily." has the payload "Show up daily.".
C6_CalloutRendered ==
    /\ (/\ pc = "loop" /\ idx >= 1
        /\ StartsWith(Strip(paras[idx]), CoreLabel)
        /\ Len(Strip(paras[idx])) > Len(CoreLabel))
       => (/\ prev_kind = "core"
           /\ Last(out).tag = "core"
           /\ Last(out).text =
                  Escape(Strip(SubSeq(Strip(paras[idx]), Len(CoreLabel) + 1,
                                      Len(Strip(paras[idx]))))))
    /\ (pc = "loop" /\ idx >= 1 /\ paras[idx] = LineCoreSpaced)
       => Last(out) = [tag |-> "core",
                       text |-> <<"S","h","o","w"," ","u","p"," ","d","a","i","l","y",".">>]

\* the line begins with the word "module" in any letter case, whitespace and
\* a number
ModulePatternAnyCase(line) ==
    /\ Len(line) >= 8
    /\ Lower(SubSeq(line, 1, 6)) = <<"m","o","d","u","l","e">>
    /\ IsSpace(line[7])
    /\ \E k \in 8..Len(line) :
           /\ \A i \in 7..(k - 1) : IsSpace(line[i])
           /\ IsDigit(line[k])
\* the line begins with "Module" or "MODULE" in exactly that spelling,
\* whitespace and a number that ends the line or is followed by a character
\* that is no letter, digit or underscore
ModulePatternExact(line) ==
    /\ Len(line) >= 8
    /\ SubSeq(line, 1, 6) \in { <<"M","o","d","u","l","e">>, <<"M","O","D","U","L","E">> }
    /\ \E k \in 8..Len(line) : \E e \in k..Len(line) :
           /\ \A i \in 7..(k - 1) : IsSpace(line[i])
           /\ \A i \in k..e : IsDigit(line[i])
           /\ (e = Len(line) \/ ~IsWord(line[e + 1]))
RenderedAsMajorHeading ==
    /\ prev_kind = "h2"
    /\ Last(out) = [tag |-> "h2", text |-> Escape(Strip(paras[idx]))]

\* C7 as stated: every line that begins with "Module N", the word in any
\* letter case, is a major heading whatever precedes it.
C7_AnyCaseIsMajorHeading ==
    (pc = "loop" /\ idx >= 1 /\ ModulePatternAnyCase(Strip(paras[idx])))
        => RenderedAsMajorHeading
\* C7 amended: every line that begins with "Module" or "MODULE" in exactly
\* that spelling, whitespace and a number not directly followed by a letter,
\* digit or underscore is classified h2 and rendered as a major heading,
\* whatever the role of the preceding line and whether or not a list is open.
C7_ExactSpellingIsMajorHeading ==
    (pc = "loop" /\ idx >= 1 /\ ModulePatternExact(Strip(paras[idx])))
        => (classify_line(Strip(paras[idx])) = "h2" /\ RenderedAsMajorHeading)
\* the upper-case spelling was rendered as a major heading right after an
\* open list was closed
C7_Witness ==
    /\ pc = "loop" /\ idx >= 3
    /\ paras[idx] = LineModuleUpper
    /\ Last(out).tag = "h2"
    /\ out[Len(out) - 1].tag = "/ul"

NoMarkers == [none |-> TRUE, list |-> <<>>]
SomeMarkers(l) == [none |-> FALSE, list |-> l]

\* "not end_markers": None or the empty list
NotMarkers(m) == m.none \/ m.list = <<>>

\* the inner loop: some marker m has m.lower() in line.lower()
MarkerHit(line, l) == \E j \in 1..Len(l) : Contains(Lower(line), Lower(l[j]))

\* (variant: the matching paragraph is kept)
CutAtInclusive(ps, i) == SubSeq(ps, 1, i + 1)
\* paras[:i], i 0-based
CutAt(ps, i) == SubSeq(ps, 1, i)

\* the outer loop from index i (0-based) on
RECURSIVE CutScan(_, _, _)
CutScan(ps, l, i) ==
    IF i >= Len(ps) THEN ps
    ELSE IF MarkerHit(ps[i + 1], l) THEN CutAt(ps, i)
    ELSE CutScan(ps, l, i + 1)

cut_section(ps, m) == IF NotMarkers(m) THEN ps ELSE CutScan(ps, m.list, 0)

\* inputs of the clipper
CutLineAb == <<"A","b">>
CutLineA == <<"a">>
CutLineBc == <<"b","c">>
CutLineC == <<"C">>
CutLines == {CutLineAb, CutLineA, CutLineBc, CutLineC}
CutMarkers == CutLines \cup { <<"B">>, <<"x">>, <<>> }

CutInit ==
    /\ cut_paras \in SeqsUpTo(CutLines, MaxCutParas)
    /\ cut_markers \in {NoMarkers} \cup {SomeMarkers(l) : l \in SeqsUpTo(CutMarkers, MaxMarkers)}
    /\ cut_result = <<>>
    /\ cut_pc = "call"

\* line 60-61: no markers, the input is returned
CutNoMarkers ==
    /\ cut_pc = "call"
    /\ NotMarkers(cut_markers)
    /\ cut_result' = cut_section(cut_paras, cut_markers)
    /\ cut_pc' = "done"
    /\ UNCHANGED <<cut_paras, cut_markers, render_vars, main_vars>>

\* line 62-65: some paragraph holds a marker
CutAtMarker ==
    /\ cut_pc = "call"
    /\ ~NotMarkers(cut_markers)
    /\ \E i \in 1..Len(cut_paras) : MarkerHit(cut_paras[i], cut_markers.list)
    /\ cut_result' = cut_section(cut_paras, cut_markers)
    /\ cut_pc' = "done"
    /\ UNCHANGED <<cut_paras, cut_markers, render_vars, main_vars>>

\* line 66: no paragraph holds a marker
CutNoMatch ==
    /\ cut_pc = "call"
    /\ ~NotMarkers(cut_markers)
    /\ \A i \in 1..Len(cut_paras) : ~MarkerHit(cut_paras[i], cut_markers.list)
    /\ cut_result' = cut_section(cut_paras, cut_markers)
    /\ cut_pc' = "done"
    /\ UNCHANGED <<cut_paras, cut_markers, render_vars, main_vars>>

InitCut == RenderIdle /\ CutInit /\ MainIdle
NextCut == CutNoMarkers \/ CutAtMarker \/ CutNoMatch
SpecCut == InitCut /\ [][NextCut]_vars

(***************************************************************************)
(* Properties of the clipper.                                              *)
(***************************************************************************)
\* two characters that are equal up to letter case
SameLetter(a, b) ==
    \/ a = b
    \/ \E i \in 1..26 : {a, b} = {UpperLetters[i], LowerLetters[i]}
\* m occurs in line, letter case ignored
HoldsIgnoringCase(line, m) ==
    \E k \in 0..(Len(line) - Len(m)) :
        \A t \in 1..Len(m) : SameLetter(line[k + t], m[t])
\* the indices (1-based) of the paragraphs that hold some marker
HitIndices ==
    {i \in 1..Len(cut_paras) :
        \E j \in 1..Len(cut_markers.list) :
            HoldsIgnoringCase(cut_paras[i], cut_markers.list[j])}
MinOf(S) == CHOOSE x \in S : \A y \in S : x <= y

\* C4: cut_section returns the paragraphs before the first one that holds
\* any marker as a case-insensitive substring, whichever marker it is; with
\* no markers (None or the empty list) or no paragraph holding one it returns
\* the input unchanged.
C4_CutAtFirstHit ==
    cut_pc = "done" =>
        IF cut_markers.none \/ cut_markers.list = <<>> \/ HitIndices = {}
        THEN cut_result = cut_paras
        ELSE cut_result = SubSeq(cut_paras, 1, MinOf(HitIndices) - 1)
\* the cut was made by the second of two markers, matched in another letter
\* case, at a paragraph that is neither the first nor the last
C4_Witness ==
    /\ cut_pc = "done"
    /\ cut_markers = SomeMarkers(<< <<"x">>, <<"B">> >>)
    /\ Len(cut_paras) = 3
    /\ cut_paras[2] = CutLineAb
    /\ cut_result = <<cut_paras[1]>>

\* the indices (1-based) of the paragraphs the single marker is the exact
\* text of
ExactIndices ==
    IF ~cut_markers.none /\ Len(cut_markers.list) = 1
    THEN {i \in 1..Len(cut_paras) : cut_paras[i] = cut_markers.list[1]}
    ELSE {}

\* C5 as stated: with a marker equal to the exact text of paragraph i the
\* result is exactly the paragraphs before i, for every such i.
C5_ExactMarkerCutsAtI ==
    cut_pc = "done" =>
        \A i \in ExactIndices : cut_result = SubSeq(cut_paras, 1, i - 1)
\* C5 amended: with a marker equal to the exact text of paragraph i, and no
\* earlier paragraph holding that text as a case-insensitive substring, the
\* result is exactly the paragraphs before i.
C5_ExactMarkerCutsAtFirst ==
    cut_pc = "done" =>
        \A i \in ExactIndices :
            (\A j \in 1..(i - 1) : ~HoldsIgnoringCase(cut_paras[j], cut_paras[i]))
                => cut_result = SubSeq(cut_paras, 1, i - 1)
\* the marker is the text of the second of three paragraphs, and the cut
\* left the first
C5_Witness ==
    /\ cut_pc = "done"
    /\ Len(cut_paras) = 3
    /\ 2 \in ExactIndices
    /\ ~HoldsIgnoringCase(cut_paras[1], cut_paras[2])
    /\ cut_result = <<cut_paras[1]>>

(***************************************************************************)
(* Configuration: DOCS, END_MARKERS, OUT_DIR, IMG_DIR.                     *)
(***************************************************************************)
KeyBusiness == <<"b","u","s","i","n","e","s","s">>
KeySports == <<"s","p","o","r","t","s">>
KeyIf == <<"i","f">>
KeyGuitar == <<"g","u","i","t","a","r">>
KeySpiritual == <<"s","p","i","r","i","t","u","a","l">>
KeyDadjokes == <<"d","a","d","j","o","k","e","s">>
KeyPower == <<"p","o","w","e","r">>
KeyArt == <<"a","r","t">>

\* the keys of DOCS in list order; entry k names the k-th source file
DOCS ==
    <<KeyBusiness, KeySports, KeyIf, KeyGuitar, KeySpiritual, KeyDadjokes,
      KeyPower, KeyArt>>

MarkerPalette == <<Palette>>
MarkerSketch == <<"T","H","E"," ","A","D","V","A","N","C","E","D"," ","S","K","E","T","C","H">>
MarkerSeeMore ==
    <<"S","e","e"," ","M","o","r","e","."," ","C","h","o","o","s","e"," ",
      "M","o","r","e","."," ","C","r","e","a","t","e"," ","M","o","r","e",".">>

\* END_MARKERS.get(key)
END_MARKERS(key) ==
    IF key = KeySports THEN SomeMarkers(<<MarkerPalette, MarkerSketch, MarkerSeeMore>>)
    ELSE IF key = KeySpiritual THEN SomeMarkers(<<MarkerSeeMore, MarkerPalette, MarkerSketch>>)
    ELSE NoMarkers

OUT_DIR == <<"platforms">>
IMG_DIR == <<"images">>

(***************************************************************************)
(* read_docx_paragraphs and extract_docx_images.  A source file is absent, *)
(* not a zip archive ("badzip"), an archive without word/document.xml      *)
(* ("nobody"), or a document ("ok") whose paragraph texts and media names  *)
(* are those of DocTexts and DocMedia.                                     *)
(***************************************************************************)
FileStates == {"absent", "badzip", "nobody", "ok"}

\* re.sub(r"[ \t]+", " ", line)
IsBlank(c) == c \in {" ", "\t"}
RECURSIVE SkipBlanks(_)
SkipBlanks(s) == IF s # <<>> /\ IsBlank(Head(s)) THEN SkipBlanks(Tail(s)) ELSE s
RECURSIVE CollapseBlanks(_)
CollapseBlanks(s) ==
    IF s = <<>> THEN <<>>
    ELSE IF IsBlank(Head(s)) THEN <<" ">> \o CollapseBlanks(SkipBlanks(s))
    ELSE <<Head(s)>> \o CollapseBlanks(Tail(s))

\* the loop over the w:p elements: the joined text of each is stripped,
\* dropped when empty, and its blanks are collapsed
RECURSIVE ParagraphsOf(_)
ParagraphsOf(texts) ==
    IF texts = <<>> THEN <<>>
    ELSE LET line == Strip(Head(texts))
         IN  (IF line # <<>> THEN <<CollapseBlanks(line)>> ELSE <<>>)
                 \o ParagraphsOf(Tail(texts))

DocTitleText == <<"L","e","a","d","e","r","s","h","i","p"," "," "," ","P","l","a","t","f","o","r","m">>
DocBlankText == <<" "," ">>
DocSketchText ==
    <<"T","h","e"," ","A","d","v","a","n","c","e","d"," ","S","k","e","t","c","h"," ",
      "P","l","a","t","f","o","r","m">>
DocBody == <<DocTitleText, DocBlankText, LineModule1, LineFramework, LineTrust>>

\* the joined w:t texts of the w:p elements of the k-th source file
DocTexts(key) ==
    IF key \in {KeySports, KeySpiritual} THEN DocBody \o <<DocSketchText, LinePlain>>
    ELSE IF key = KeyPower THEN <<DocBlankText>>
    ELSE DocBody
\* the base names of the entries under word/media/
DocMedia(key) ==
    IF key = KeyIf THEN <<>>
    ELSE << <<"i","m","a","g","e","1",".","j","p","e","g">> >>

read_docx_paragraphs(key) == ParagraphsOf(DocTexts(key))
extract_docx_images(key) == DocMedia(key)

(***************************************************************************)
(* wrap_page and the title                                                 *)
(***************************************************************************)
IsLetter(c) == c \in Range(UpperLetters) \cup Range(LowerLetters)
UpperChar(c) ==
    IF \E i \in 1..Len(LowerLetters) : LowerLetters[i] = c
    THEN UpperLetters[CHOOSE i \in 1..Len(LowerLetters) : LowerLetters[i] = c]
    ELSE c
\* str.title()
TitleCase(s) ==
    [i \in 1..Len(s) |->
        IF i = 1 \/ ~IsLetter(s[i - 1]) THEN UpperChar(s[i]) ELSE LowerChar(s[i])]

\* title = paras[0] if paras else f"{key.title()} Platform"
TitleOf(key, ps) ==
    IF ps # <<>> THEN ps[1]
    ELSE TitleCase(key) \o <<" ","P","l","a","t","f","o","r","m">>

\* the page: the parts of the template that vary
wrap_page(key, title, content_html, extracted) ==
    [ title |-> Escape(title),
      content |-> content_html,
      gallery |-> [i \in 1..Len(extracted) |->
                      [src |-> <<"..", "images", key, Escape(extracted[i])>>,
                       alt |-> Escape(extracted[i])]] ]

(***************************************************************************)
(* main                                                                    *)
(***************************************************************************)
MainInit ==
    /\ files \in [1..Len(DOCS) -> FileStates]
    /\ pos = 0
    /\ log = <<>>
    /\ pages = <<>>
    /\ images = {}
    /\ dirs = {}
    /\ main_pc = "start"

\* lines 257-258
MainStart ==
    /\ main_pc = "start"
    /\ dirs' = dirs \cup {OUT_DIR, IMG_DIR}
    /\ main_pc' = "loop"
    /\ UNCHANGED <<files, pos, log, pages, images, render_vars, cut_vars>>

\* lines 262-264: the source file is absent
MainSkip ==
    /\ main_pc = "loop" /\ pos < Len(DOCS)
    /\ files[pos + 1] = "absent"
    /\ log' = Append(log, [tag |-> "SKIP", entry |-> pos + 1])
    /\ pos' = pos + 1
    /\ UNCHANGED <<files, pages, images, dirs, main_pc, render_vars, cut_vars>>

\* lines 266-267 and 39-40: zipfile.ZipFile raises BadZipFile, or z.read
\* raises KeyError; main has no handler and the exception ends the run
MainReadRaises ==
    /\ main_pc = "loop" /\ pos < Len(DOCS)
    /\ files[pos + 1] \in {"badzip", "nobody"}
    /\ log' = Append(log, [tag |-> "READ", entry |-> pos + 1])
    /\ main_pc' = (IF files[pos + 1] = "badzip" THEN "BadZipFile" ELSE "KeyError")
    /\ UNCHANGED <<files, pos, pages, images, dirs, render_vars, cut_vars>>

\* lines 266-282: the source file is a document
MainWrite ==
    /\ main_pc = "loop" /\ pos < Len(DOCS)
    /\ files[pos + 1] = "ok"
    /\ LET key == DOCS[pos + 1]
           ps == cut_section(read_docx_paragraphs(key), END_MARKERS(key))
           title == TitleOf(key, ps)
           extracted == extract_docx_images(key)
           html == wrap_page(key, title, build_content_html(ps), extracted)
       IN  /\ dirs' = dirs \cup {IMG_DIR \o <<key>>}
           /\ images' = images \cup {IMG_DIR \o <<key, extracted[i]>> : i \in 1..Len(extracted)}
           /\ pages' = Append(pages, [path |-> OUT_DIR \o <<key>>, html |-> html])
           /\ log' = log \o <<[tag |-> "READ", entry |-> pos + 1],
                              [tag |-> "WRITE", entry |-> pos + 1]>>
    /\ pos' = pos + 1
    /\ UNCHANGED <<files, main_pc, render_vars, cut_vars>>

\* line 284: the list is exhausted
MainDone ==
    /\ main_pc = "loop" /\ pos = Len(DOCS)
    /\ log' = Append(log, [tag |-> "DONE", entry |-> 0])
    /\ main_pc' = "done"
    /\ UNCHANGED <<files, pos, pages, images, dirs, render_vars, cut_vars>>

InitMain == RenderIdle /\ CutIdle /\ MainInit
NextMain == MainStart \/ MainSkip \/ MainReadRaises \/ MainWrite \/ MainDone
SpecMain == InitMain /\ [][NextMain]_vars

(***************************************************************************)
(* Properties of the driver.                                               *)
(***************************************************************************)
\* the run is over: main returned or an exception left it
MainEnded == main_pc \notin {"start", "loop"}
\* how many pages were written for entry k
PagesFor(k) ==
    Cardinality({i \in 1..Len(pages) : pages[i].path = <<"platforms", DOCS[k]>>})
\* the reports of kind tag for entry k
ReportsFor(tag, k) == {i \in 1..Len(log) : log[i] = [tag |-> tag, entry |-> k]}
\* the reports name the entries in list order
InListOrder ==
    \A i, j \in 1..Len(log) :
        (i < j /\ log[i].entry > 0 /\ log[j].entry > 0) => log[i].entry <= log[j].entry

\* C8: the driver visits the entries in list order and reaches the end of the
\* list whatever files are present or absent; an absent file gives a skip
\* report, no page and no images, and every entry whose file is present and
\* readable gets exactly one page.
C8_EveryEntryVisited ==
    /\ InListOrder
    /\ MainEnded =>
           /\ pos = Len(DOCS)
           /\ \A k \in 1..Len(DOCS) :
                  /\ files[k] = "absent" =>
                         /\ ReportsFor("SKIP", k) # {}
                         /\ PagesFor(k) = 0
                         /\ \A im \in images : im[2] # DOCS[k]
                  /\ files[k] = "ok" => PagesFor(k) = 1

\* C9: a present file that is no archive, or has no word/document.xml, is
\* skipped for that document only: the run is never aborted, and every later
\* readable entry still has its page written.
C9_CorruptArchiveSkipped ==
    /\ main_pc \in {"start", "loop", "done"}
    /\ MainEnded =>
           \A k \in 1..Len(DOCS) : \A n \in (k + 1)..Len(DOCS) :
               (files[k] \in {"badzip", "nobody"} /\ files[n] = "ok") => PagesFor(n) = 1

====
